---- MODULE Spec2Model ----
(***************************************************************************)
(* Model of markdown2html.py: convert_markdown_to_html, the per-line       *)
(* transformation pipeline and the block-level state machine.              *)
(*                                                                         *)
(* A Python str is a sequence of one-character strings.  The loop body of  *)
(* convert_markdown_to_html is cut at its comment-delimited steps; pc is   *)
(* the position inside the function.                                       *)
(***************************************************************************)
EXTENDS Integers, Sequences, FiniteSets, TLC

VARIABLES markdown_content, idx, pc, line, heading_level,
          unordered_start, ordered_start, paragraph, html_content,
          result, hist,
          mpc, argv_len, input_isfile, input_lines, output_file,
          exit_status, stderr, events

\* state of main (lines 98-121) and of its environment
mainvars == <<mpc, argv_len, input_isfile, input_lines, output_file,
              exit_status, stderr, events>>

vars == <<markdown_content, idx, pc, line, heading_level,
          unordered_start, ordered_start, paragraph, html_content,
          result, hist, mainvars>>

(***************************************************************************)
(* Bounds of the checked input families.                                   *)
(***************************************************************************)
MaxLines == 3
MaxHashes == 8
MaxBody == 2
MaxInline == 6
MaxHashTokens == 4
MaxRemoveTokens == 4
MaxMainLines == 2
MaxOrderTokens == 3
MaxListTokens == 4

(***************************************************************************)
(* Python str primitives.                                                  *)
(***************************************************************************)
Whitespace == {" ", "\n", "\t"}

MinOf(S) == CHOOSE x \in S : \A y \in S : x <= y

RECURSIVE Concat(_)
Concat(ss) == IF ss = <<>> THEN <<>> ELSE Head(ss) \o Concat(Tail(ss))

StartsWith(s, c) == Len(s) >= 1 /\ s[1] = c

RECURSIVE LStrip(_, _)
LStrip(s, cs) ==
    IF Len(s) > 0 /\ Head(s) \in cs THEN LStrip(Tail(s), cs) ELSE s

RECURSIVE RStrip(_, _)
RStrip(s, cs) ==
    IF Len(s) > 0 /\ s[Len(s)] \in cs
    THEN RStrip(SubSeq(s, 1, Len(s) - 1), cs) ELSE s

Strip(s, cs) == RStrip(LStrip(s, cs), cs)

OccursAt(s, pat, p) ==
    /\ p >= 1
    /\ p + Len(pat) - 1 <= Len(s)
    /\ SubSeq(s, p, p + Len(pat) - 1) = pat

Find(s, pat, from) ==
    LET ps == {p \in from..(Len(s) - Len(pat) + 1) : OccursAt(s, pat, p)}
    IN  IF ps = {} THEN 0 ELSE MinOf(ps)

\* str.replace(old, new, count); count = -1 replaces every occurrence
RECURSIVE Replace(_, _, _, _)
Replace(s, old, new, count) ==
    LET p == Find(s, old, 1)
    IN  IF count = 0 \/ p = 0 THEN s
        ELSE SubSeq(s, 1, p - 1) \o new
             \o Replace(SubSeq(s, p + Len(old), Len(s)), old, new, count - 1)

\* position of the closing delimiter of the non-greedy match of
\* open.+?close that starts at p, 0 if there is none ('.' excludes newline)
MatchEnd(s, p, open, close) ==
    LET q == Find(s, close, p + Len(open) + 1)
    IN  IF OccursAt(s, open, p) /\ q # 0
           /\ \A k \in (p + Len(open))..(q - 1) : s[k] # "\n"
        THEN q ELSE 0

\* re.findall of open.+?close (group = FALSE) or open(.+?)close (group = TRUE)
RECURSIVE FindAll(_, _, _, _)
FindAll(s, open, close, group) ==
    LET starts == {p \in 1..Len(s) : MatchEnd(s, p, open, close) # 0}
    IN  IF starts = {} THEN <<>>
        ELSE LET p == MinOf(starts)
                 q == MatchEnd(s, p, open, close)
                 m == IF group THEN SubSeq(s, p + Len(open), q - 1)
                      ELSE SubSeq(s, p, q + Len(close) - 1)
             IN  <<m>> \o FindAll(SubSeq(s, q + Len(close), Len(s)),
                                  open, close, group)

(***************************************************************************)
(* hashlib.md5(t.encode()).hexdigest(): an opaque function from the text   *)
(* to DigestLen lowercase hexadecimal characters.                          *)
(***************************************************************************)
DigestLen == 32

HexDigits == <<"0", "1", "2", "3", "4", "5", "6", "7",
               "8", "9", "a", "b", "c", "d", "e", "f">>

Alphabet == <<"a", "b", "c", "C", "t", " ", "\n", "\t", "#", "-", "*", "_",
              "[", "]", "(", ")", "<", ">", "/", "h", "e", "m", "l", "i",
              "u", "o", "p", "r", "d", "f",
              "0", "1", "2", "3", "4", "5", "6", "7", "8", "9">>

Ord(c) == CHOOSE k \in 1..Len(Alphabet) : Alphabet[k] = c

RECURSIVE Mix(_, _)
Mix(t, h) == IF t = <<>> THEN h
             ELSE Mix(Tail(t), (h * 31 + Ord(Head(t))) % 65521)

hexdigest(t) ==
    LET h == Mix(t, Len(t) + 7)
    IN  [j \in 1..DigestLen |-> HexDigits[(((h \div (1 + (j % 5))) + 3 * j) % 16) + 1]]

(***************************************************************************)
(* Line Transformer, lines 31-52.                                          *)
(***************************************************************************)
BOLD == <<"*", "*">>
ITALIC == <<"_", "_">>
B_OPEN == <<"<", "b", ">">>
B_CLOSE == <<"<", "/", "b", ">">>
EM_OPEN == <<"<", "e", "m", ">">>
EM_CLOSE == <<"<", "/", "e", "m", ">">>
LBR == <<"[", "[">>
RBR == <<"]", "]">>
LPAR == <<"(", "(">>
RPAR == <<")", ")">>

BoldLineGlobal(l) == Replace(Replace(l, BOLD, B_OPEN, -1), BOLD, B_CLOSE, -1)

BoldLine(l) == Replace(Replace(l, BOLD, B_OPEN, 1), BOLD, B_CLOSE, 1)

ItalicLine(l) == Replace(Replace(l, ITALIC, EM_OPEN, 1), ITALIC, EM_CLOSE, 1)

RECURSIVE Md5Loop(_, _)
Md5Loop(l, md5_matches) ==
    IF md5_matches = <<>> THEN l
    ELSE LET md5_match == Head(md5_matches)
             md5_text == Head(FindAll(md5_match, LBR, RBR, TRUE))
         IN  Md5Loop(Replace(l, md5_match, hexdigest(md5_text), -1),
                     Tail(md5_matches))

Md5LineFirstOnly(l) ==
    LET md5_matches == FindAll(l, LBR, RBR, FALSE)
    IN  IF md5_matches = <<>> THEN l ELSE Md5Loop(l, <<Head(md5_matches)>>)

Md5Line(l) == Md5Loop(l, FindAll(l, LBR, RBR, FALSE))

WithoutC(t) == SelectSeq(t, LAMBDA c : c \notin {"C", "c"})

RECURSIVE RemoveLoop(_, _)
RemoveLoop(l, remove_c_matches) ==
    IF remove_c_matches = <<>> THEN l
    ELSE LET remove_c_match == Head(remove_c_matches)
             text_without_c ==
                 WithoutC(Head(FindAll(remove_c_match, LPAR, RPAR, TRUE)))
         IN  RemoveLoop(Replace(l, remove_c_match, text_without_c, -1),
                        Tail(remove_c_matches))

RemoveLine(l) == RemoveLoop(l, FindAll(l, LPAR, RPAR, FALSE))

HeadingLevel(l) == Len(l) - Len(LStrip(l, {"#"}))

\* '{}'.format(n) for a non-negative integer
RECURSIVE Decimal(_)
Decimal(n) == IF n < 10 THEN <<HexDigits[n + 1]>>
              ELSE Decimal(n \div 10) \o <<HexDigits[(n % 10) + 1]>>

IsHeadingNoUpper(n) == 1 <= n

IsHeading(n) == 1 <= n /\ n <= 6

HeadingLine(l) ==
    LET n == HeadingLevel(l)
    IN  IF IsHeading(n)
        THEN <<"<", "h">> \o Decimal(n) \o <<">">>
             \o Strip(Strip(l, {"#"}), Whitespace)
             \o <<"<", "/", "h">> \o Decimal(n) \o <<">", "\n">>
        ELSE l

(***************************************************************************)
(* Block Assembler, lines 54-94.                                           *)
(***************************************************************************)
UL_OPEN == <<"<", "u", "l", ">", "\n">>
UL_CLOSE == <<"<", "/", "u", "l", ">", "\n">>
OL_OPEN == <<"<", "o", "l", ">", "\n">>
OL_CLOSE == <<"<", "/", "o", "l", ">", "\n">>
P_OPEN == <<"<", "p", ">", "\n">>
P_CLOSE == <<"<", "/", "p", ">", "\n">>
BR == <<"<", "b", "r", "/", ">", "\n">>

IsBlank(l) == Strip(l, Whitespace) = <<>>

ListItem(l, marker) ==
    <<"<", "l", "i", ">">> \o Strip(Strip(l, {marker}), Whitespace)
    \o <<"<", "/", "l", "i", ">", "\n">>

ListStepCheckBefore(l, flag, html, marker, open, close) ==
    LET item == StartsWith(l, marker)
        html1 == IF item /\ ~flag THEN Append(html, open) ELSE html
        flag1 == IF item THEN TRUE ELSE flag
        l1 == IF item THEN ListItem(l, marker) ELSE l
        closing == flag1 /\ ~StartsWith(l, marker)
    IN  [line |-> l1,
         html |-> IF closing THEN Append(html1, close) ELSE html1,
         flag |-> IF closing THEN FALSE ELSE flag1]

\* one list block: "if line.startswith(m): ..." then "if flag and not ..."
ListStep(l, flag, html, marker, open, close) ==
    LET item == StartsWith(l, marker)
        html1 == IF item /\ ~flag THEN Append(html, open) ELSE html
        flag1 == IF item THEN TRUE ELSE flag
        l1 == IF item THEN ListItem(l, marker) ELSE l
        closing == flag1 /\ ~StartsWith(l1, marker)
    IN  [line |-> l1,
         html |-> IF closing THEN Append(html1, close) ELSE html1,
         flag |-> IF closing THEN FALSE ELSE flag1]

ParagraphGuardIgnoresHeading(hl, us, os) == ~(us \/ os)

ParagraphGuard(hl, us, os) == ~(hl # 0 \/ us \/ os)

FinalClosersListsOnly(us, os, par) ==
    (IF us THEN <<UL_CLOSE>> ELSE <<>>)
    \o (IF os THEN <<OL_CLOSE>> ELSE <<>>)

FinalClosers(us, os, par) ==
    (IF us THEN <<UL_CLOSE>> ELSE <<>>)
    \o (IF os THEN <<OL_CLOSE>> ELSE <<>>)
    \o (IF par THEN <<P_CLOSE>> ELSE <<>>)

(***************************************************************************)
(* Input families.                                                         *)
(***************************************************************************)
SeqsUpTo(S, n) == UNION {[1..k -> S] : k \in 0..n}

Hashes(n) == [k \in 1..n |-> "#"]

BlockLines ==
    { <<"a", "\n">>, <<"\n">>, <<"-", " ", "a", "\n">>, <<"*", "a", "\n">>,
      <<"#", " ", "a", "\n">>, Hashes(7) \o <<"a", "\n">>,
      <<"(", "(", "c", ")", ")", "\n">>, <<"*", "*", "a", "*", "*", "\n">> }

HeadingLines ==
    { Hashes(n) \o b \o e : n \in 0..MaxHashes,
                            b \in SeqsUpTo({"a", " ", "#"}, MaxBody),
                            e \in {<<>>, <<"\n">>} }

InlineLines ==
    { t \o <<"\n">> : t \in SeqsUpTo({"*", "_", "a"}, MaxInline) }

HashTokens == { LBR, RBR, <<"a">>, LBR \o <<"a">> \o RBR,
                LBR \o <<"b", "a">> \o RBR }

HashLines ==
    { Concat(ts) \o <<"\n">> : ts \in SeqsUpTo(HashTokens, MaxHashTokens) }

RemoveTokens == { LPAR, RPAR, <<"c">>, <<"a">>,
                  LPAR \o <<"C", "a", "t">> \o RPAR }

RemoveLines ==
    { Concat(ts) \o <<"\n">> : ts \in SeqsUpTo(RemoveTokens, MaxRemoveTokens) }

OrderTokens == { LPAR, RPAR, LBR, RBR, BOLD, <<"_", "_", "#">>,
                 LBR \o <<"c">> \o RBR, LPAR \o <<"c">> \o RPAR,
                 <<"#", " ", "t">> }

OrderLines ==
    { Concat(ts) \o <<"\n">> : ts \in SeqsUpTo(OrderTokens, MaxOrderTokens) }

ListTokens == { <<"-">>, <<"*">>, BOLD, <<"a">>, <<" ">> }

ListLines ==
    { Concat(ts) \o <<"\n">> : ts \in SeqsUpTo(ListTokens, MaxListTokens) }

(***************************************************************************)
(* State machine.                                                          *)
(***************************************************************************)
\* convert_markdown_to_html called on its own, main not running
NoMain ==
    /\ mpc = "none"
    /\ argv_len = 3
    /\ input_isfile = TRUE
    /\ input_lines = <<>>
    /\ output_file = [state |-> "untouched", text |-> <<>>]
    /\ exit_status = -1
    /\ stderr = ""
    /\ events = <<>>

InitState ==
    /\ NoMain
    /\ idx = 1
    /\ pc = "for"
    /\ line = <<>>
    /\ heading_level = 0
    /\ unordered_start = FALSE
    /\ ordered_start = FALSE
    /\ paragraph = FALSE
    /\ html_content = <<>>
    /\ result = <<>>
    /\ hist = <<>>

Init == markdown_content \in (SeqsUpTo(BlockLines, MaxLines) \ {<<>>}) /\ InitState

InitHeading == markdown_content \in {<<l>> : l \in HeadingLines} /\ InitState

InitInline == markdown_content \in {<<l>> : l \in InlineLines} /\ InitState

InitHash == markdown_content \in {<<l>> : l \in HashLines} /\ InitState

InitRemove == markdown_content \in {<<l>> : l \in RemoveLines} /\ InitState

InitOrder == markdown_content \in {<<l>> : l \in OrderLines} /\ InitState

InitLists ==
    /\ markdown_content \in
           {<<l>> : l \in ListLines} \cup {<< <<"a", "\n">>, l >> : l \in ListLines}
    /\ InitState

Snapshot == [len |-> Len(html_content), unordered |-> unordered_start,
             ordered |-> ordered_start, paragraph |-> paragraph,
             text |-> <<>>, level |-> 0]

\* line 30: for line in markdown_content
ForLine ==
    /\ pc = "for"
    /\ idx <= Len(markdown_content)
    /\ line' = markdown_content[idx]
    /\ pc' = "bold"
    /\ hist' = Append(hist, Snapshot)
    /\ UNCHANGED <<markdown_content, idx, heading_level, unordered_start,
                   ordered_start, paragraph, html_content, result>>
    /\ UNCHANGED mainvars

\* line 32
BoldStep ==
    /\ pc = "bold"
    /\ line' = BoldLine(line)
    /\ pc' = "italic"
    /\ UNCHANGED <<markdown_content, idx, heading_level, unordered_start,
                   ordered_start, paragraph, html_content, result, hist>>
    /\ UNCHANGED mainvars

\* line 33
ItalicStep ==
    /\ pc = "italic"
    /\ line' = ItalicLine(line)
    /\ pc' = "md5"
    /\ UNCHANGED <<markdown_content, idx, heading_level, unordered_start,
                   ordered_start, paragraph, html_content, result, hist>>
    /\ UNCHANGED mainvars

\* lines 36-40
Md5Step ==
    /\ pc = "md5"
    /\ line' = Md5Line(line)
    /\ pc' = "remove"
    /\ UNCHANGED <<markdown_content, idx, heading_level, unordered_start,
                   ordered_start, paragraph, html_content, result, hist>>
    /\ UNCHANGED mainvars

RemoveStepOnRaw ==
    /\ pc = "remove"
    /\ line' = RemoveLine(markdown_content[idx])
    /\ pc' = "heading"
    /\ UNCHANGED <<markdown_content, idx, heading_level, unordered_start,
                   ordered_start, paragraph, html_content, result, hist>>
    /\ UNCHANGED mainvars

\* lines 43-47
RemoveStep ==
    /\ pc = "remove"
    /\ line' = RemoveLine(line)
    /\ pc' = "heading"
    /\ UNCHANGED <<markdown_content, idx, heading_level, unordered_start,
                   ordered_start, paragraph, html_content, result, hist>>
    /\ UNCHANGED mainvars

HeadingStepClosesParagraph ==
    /\ pc = "heading"
    /\ heading_level' = HeadingLevel(line)
    /\ line' = HeadingLine(line)
    /\ pc' = "unordered"
    /\ hist' = [hist EXCEPT ![idx].text = line', ![idx].level = heading_level']
    /\ IF IsHeading(HeadingLevel(line)) /\ paragraph
       THEN /\ html_content' = Append(html_content, P_CLOSE)
            /\ paragraph' = FALSE
       ELSE UNCHANGED <<html_content, paragraph>>
    /\ UNCHANGED <<markdown_content, idx, unordered_start,
                   ordered_start, result>>
    /\ UNCHANGED mainvars

\* lines 50-52
HeadingStep ==
    /\ pc = "heading"
    /\ heading_level' = HeadingLevel(line)
    /\ line' = HeadingLine(line)
    /\ pc' = "unordered"
    /\ hist' = [hist EXCEPT ![idx].text = line', ![idx].level = heading_level']
    /\ UNCHANGED <<markdown_content, idx, unordered_start,
                   ordered_start, paragraph, html_content, result>>
    /\ UNCHANGED mainvars

\* lines 55-62
UnorderedStep ==
    /\ pc = "unordered"
    /\ LET r == ListStep(line, unordered_start, html_content,
                         "-", UL_OPEN, UL_CLOSE)
       IN  /\ line' = r.line
           /\ html_content' = r.html
           /\ unordered_start' = r.flag
    /\ pc' = "ordered"
    /\ UNCHANGED <<markdown_content, idx, heading_level,
                   ordered_start, paragraph, result, hist>>
    /\ UNCHANGED mainvars

OrderedStepOnRaw ==
    /\ pc = "ordered"
    /\ LET r == ListStep(markdown_content[idx], ordered_start, html_content,
                         "*", OL_OPEN, OL_CLOSE)
       IN  /\ line' = IF StartsWith(markdown_content[idx], "*") THEN r.line ELSE line
           /\ html_content' = r.html
           /\ ordered_start' = r.flag
    /\ pc' = "paragraph"
    /\ UNCHANGED <<markdown_content, idx, heading_level,
                   unordered_start, paragraph, result, hist>>
    /\ UNCHANGED mainvars

\* lines 65-72
OrderedStep ==
    /\ pc = "ordered"
    /\ LET r == ListStep(line, ordered_start, html_content,
                         "*", OL_OPEN, OL_CLOSE)
       IN  /\ line' = r.line
           /\ html_content' = r.html
           /\ ordered_start' = r.flag
    /\ pc' = "paragraph"
    /\ UNCHANGED <<markdown_content, idx, heading_level,
                   unordered_start, paragraph, result, hist>>
    /\ UNCHANGED mainvars

ParagraphStepSkipsItems ==
    /\ pc = "paragraph"
    /\ IF /\ ParagraphGuard(heading_level, unordered_start, ordered_start)
          /\ ~OccursAt(line, <<"<", "l", "i", ">">>, 1)
       THEN IF ~paragraph /\ ~IsBlank(line)
            THEN /\ html_content' = Append(html_content, P_OPEN)
                 /\ paragraph' = TRUE
            ELSE IF ~IsBlank(line)
            THEN /\ html_content' = Append(html_content, BR)
                 /\ UNCHANGED paragraph
            ELSE IF paragraph
            THEN /\ html_content' = Append(html_content, P_CLOSE)
                 /\ paragraph' = FALSE
            ELSE UNCHANGED <<html_content, paragraph>>
       ELSE UNCHANGED <<html_content, paragraph>>
    /\ pc' = "emit"
    /\ UNCHANGED <<markdown_content, idx, line, heading_level,
                   unordered_start, ordered_start, result, hist>>
    /\ UNCHANGED mainvars

ParagraphStepKeepsFlag ==
    /\ pc = "paragraph"
    /\ IF ParagraphGuard(heading_level, unordered_start, ordered_start)
       THEN IF ~paragraph /\ ~IsBlank(line)
            THEN /\ html_content' = Append(html_content, P_OPEN)
                 /\ paragraph' = TRUE
            ELSE IF ~IsBlank(line)
            THEN /\ html_content' = Append(html_content, BR)
                 /\ UNCHANGED paragraph
            ELSE IF paragraph
            THEN /\ html_content' = Append(html_content, P_CLOSE)
                 /\ UNCHANGED paragraph
            ELSE UNCHANGED <<html_content, paragraph>>
       ELSE UNCHANGED <<html_content, paragraph>>
    /\ pc' = "emit"
    /\ UNCHANGED <<markdown_content, idx, line, heading_level,
                   unordered_start, ordered_start, result, hist>>
    /\ UNCHANGED mainvars

\* lines 75-83
ParagraphStep ==
    /\ pc = "paragraph"
    /\ IF ParagraphGuard(heading_level, unordered_start, ordered_start)
       THEN IF ~paragraph /\ ~IsBlank(line)
            THEN /\ html_content' = Append(html_content, P_OPEN)
                 /\ paragraph' = TRUE
            ELSE IF ~IsBlank(line)
            THEN /\ html_content' = Append(html_content, BR)
                 /\ UNCHANGED paragraph
            ELSE IF paragraph
            THEN /\ html_content' = Append(html_content, P_CLOSE)
                 /\ paragraph' = FALSE
            ELSE UNCHANGED <<html_content, paragraph>>
       ELSE UNCHANGED <<html_content, paragraph>>
    /\ pc' = "emit"
    /\ UNCHANGED <<markdown_content, idx, line, heading_level,
                   unordered_start, ordered_start, result, hist>>
    /\ UNCHANGED mainvars

EmitLineAlways(html, l) == Append(html, l)

EmitLineFront(html, l) == IF ~IsBlank(l) THEN <<l>> \o html ELSE html

EmitLine(html, l) == IF ~IsBlank(l) THEN Append(html, l) ELSE html

\* lines 85-86, then back to the loop head
EmitStep ==
    /\ pc = "emit"
    /\ html_content' = EmitLine(html_content, line)
    /\ idx' = idx + 1
    /\ pc' = "for"
    /\ UNCHANGED <<markdown_content, line, heading_level, unordered_start,
                   ordered_start, paragraph, result, hist>>
    /\ UNCHANGED mainvars

\* lines 88-96: the loop is exhausted
Finalize ==
    /\ pc = "for"
    /\ idx > Len(markdown_content)
    /\ html_content' = html_content
                       \o FinalClosers(unordered_start, ordered_start, paragraph)
    /\ result' = Concat(html_content')
    /\ hist' = Append(hist, Snapshot)
    /\ pc' = "done"
    /\ UNCHANGED <<markdown_content, idx, line, heading_level,
                   unordered_start, ordered_start, paragraph>>
    /\ UNCHANGED mainvars

Next ==
    \/ ForLine
    \/ BoldStep
    \/ ItalicStep
    \/ Md5Step
    \/ RemoveStep
    \/ HeadingStep
    \/ UnorderedStep
    \/ OrderedStep
    \/ ParagraphStep
    \/ EmitStep
    \/ Finalize

(***************************************************************************)
(* main, lines 98-121.  Failures of open, read and write are choices of    *)
(* the environment; the conversion can raise where it encodes (line 40).   *)
(***************************************************************************)
ArgsAtLeast(n) == n >= 3

\* line 100: len(sys.argv) != 3
ArgsOk(n) == n = 3

ExitAlwaysZero(failed) == 0

\* sys.exit(1) of lines 102, 108, 121, or the normal end of main
ExitAfter(failed) == IF failed THEN 1 ELSE 0

MainLines ==
    { <<"a", "\n">>, LBR \o <<"a">> \o RBR \o <<"\n">>, <<"-", " ", "a", "\n">> }

InitMain ==
    /\ mpc = "args"
    /\ argv_len \in 1..4
    /\ input_isfile \in BOOLEAN
    /\ input_lines \in SeqsUpTo(MainLines, MaxMainLines)
    /\ output_file = [state |-> "untouched", text |-> <<>>]
    /\ exit_status = -1
    /\ stderr = ""
    /\ events = <<>>
    /\ markdown_content = <<>>
    /\ idx = 1
    /\ pc = "idle"
    /\ line = <<>>
    /\ heading_level = 0
    /\ unordered_start = FALSE
    /\ ordered_start = FALSE
    /\ paragraph = FALSE
    /\ html_content = <<>>
    /\ result = <<>>
    /\ hist = <<>>

convvars == <<markdown_content, idx, pc, line, heading_level,
              unordered_start, ordered_start, paragraph, html_content,
              result, hist>>

\* lines 119-121 (and 101-102, 107-108): report and sys.exit(1)
Fail(message) ==
    /\ stderr' = message
    /\ exit_status' = ExitAfter(TRUE)
    /\ mpc' = "exit"

\* lines 100-104
MainCheckArgs ==
    /\ mpc = "args"
    /\ IF ~ArgsOk(argv_len)
       THEN Fail("usage")
       ELSE mpc' = "isfile" /\ UNCHANGED <<stderr, exit_status>>
    /\ UNCHANGED <<argv_len, input_isfile, input_lines, output_file, events>>
    /\ UNCHANGED convvars

\* lines 106-108
MainCheckFile ==
    /\ mpc = "isfile"
    /\ events' = Append(events, "isfile")
    /\ IF ~input_isfile
       THEN Fail("missing")
       ELSE mpc' = "read" /\ UNCHANGED <<stderr, exit_status>>
    /\ UNCHANGED <<argv_len, input_isfile, input_lines, output_file>>
    /\ UNCHANGED convvars

\* lines 111-114: readlines, then the call of convert_markdown_to_html
MainRead ==
    /\ mpc = "read"
    /\ events' = Append(events, "read")
    /\ markdown_content' = input_lines
    /\ pc' = "for"
    /\ mpc' = "convert"
    /\ UNCHANGED <<argv_len, input_isfile, input_lines, output_file,
                   exit_status, stderr>>
    /\ UNCHANGED <<idx, line, heading_level, unordered_start, ordered_start,
                   paragraph, html_content, result, hist>>

\* lines 111-112 raise: open or readlines fails
MainReadRaises ==
    /\ mpc = "read"
    /\ Fail("error")
    /\ UNCHANGED <<argv_len, input_isfile, input_lines, output_file, events>>
    /\ UNCHANGED convvars

\* line 114 raises: md5_text.encode() of line 40 fails
MainConvertRaises ==
    /\ mpc = "convert"
    /\ pc = "md5"
    /\ FindAll(line, LBR, RBR, FALSE) # <<>>
    /\ Fail("error")
    /\ pc' = "raised"
    /\ UNCHANGED <<argv_len, input_isfile, input_lines, output_file, events>>
    /\ UNCHANGED <<markdown_content, idx, line, heading_level,
                   unordered_start, ordered_start, paragraph, html_content,
                   result, hist>>

\* line 114 returns
MainConvertReturn ==
    /\ mpc = "convert"
    /\ pc = "done"
    /\ events' = Append(events, "convert")
    /\ mpc' = "write"
    /\ UNCHANGED <<argv_len, input_isfile, input_lines, output_file,
                   exit_status, stderr>>
    /\ UNCHANGED convvars

\* lines 116-117, then main ends normally
MainWrite ==
    /\ mpc = "write"
    /\ events' = Append(events, "write")
    /\ output_file' = [state |-> "written", text |-> result]
    /\ exit_status' = ExitAfter(FALSE)
    /\ mpc' = "exit"
    /\ UNCHANGED <<argv_len, input_isfile, input_lines, stderr>>
    /\ UNCHANGED convvars

\* line 116 raises: the output file cannot be opened
MainOpenOutputRaises ==
    /\ mpc = "write"
    /\ Fail("error")
    /\ UNCHANGED <<argv_len, input_isfile, input_lines, output_file, events>>
    /\ UNCHANGED convvars

\* line 117 raises: open(..., 'w') has truncated the file, the write fails
MainWriteRaises ==
    /\ mpc = "write"
    /\ output_file' = [state |-> "truncated", text |-> <<>>]
    /\ Fail("error")
    /\ UNCHANGED <<argv_len, input_isfile, input_lines, events>>
    /\ UNCHANGED convvars

NextMain ==
    \/ MainCheckArgs
    \/ MainCheckFile
    \/ MainRead
    \/ MainReadRaises
    \/ MainConvertRaises
    \/ MainConvertReturn
    \/ MainWrite
    \/ MainOpenOutputRaises
    \/ MainWriteRaises
    \/ Next

Spec == Init /\ [][Next]_vars

SpecHeading == InitHeading /\ [][Next]_vars

SpecInline == InitInline /\ [][Next]_vars

SpecHash == InitHash /\ [][Next]_vars

SpecRemove == InitRemove /\ [][Next]_vars

SpecOrder == InitOrder /\ [][Next]_vars

SpecLists == InitLists /\ [][Next]_vars

SpecMain == InitMain /\ [][NextMain]_vars

TypeOK ==
    /\ pc \in {"idle", "raised", "for", "bold", "italic", "md5", "remove", "heading",
               "unordered", "ordered", "paragraph", "emit", "done"}
    /\ idx \in 1..(Len(markdown_content) + 1)
    /\ unordered_start \in BOOLEAN
    /\ ordered_start \in BOOLEAN
    /\ paragraph \in BOOLEAN
    /\ heading_level \in Nat

(***************************************************************************)
(* Vocabulary of the properties.                                           *)
(***************************************************************************)
\* the line as the list steps see it (lines 32-52 applied in order)
Transform(l) == HeadingLine(RemoveLine(Md5Line(ItalicLine(BoldLine(l)))))

\* the line as line 86 appends it (after the rewrites of lines 59 and 69)
FinalLine(l) ==
    LET t == Transform(l)
        u == IF StartsWith(t, "-") THEN ListItem(t, "-") ELSE t
    IN  IF StartsWith(u, "*") THEN ListItem(u, "*") ELSE u

NumLines == Len(markdown_content)

\* line k has gone through the whole loop body
Processed(k) == k \in 1..NumLines /\ (k < idx \/ pc = "done")

\* the fragments appended while line k was processed
GroupStart(k) == hist[k].len + 1
GroupEnd(k) == IF k < Len(hist) THEN hist[k + 1].len ELSE Len(html_content)
Group(k) == SubSeq(html_content, GroupStart(k), GroupEnd(k))

\* the fragments appended after the loop
FinalGroup == SubSeq(html_content, hist[Len(hist)].len + 1, Len(html_content))

BlockTags == {UL_OPEN, UL_CLOSE, OL_OPEN, OL_CLOSE, P_OPEN, P_CLOSE, BR}

CountIn(f, lo, hi) == Cardinality({j \in lo..hi : html_content[j] = f})

DashLine(k) == StartsWith(Transform(markdown_content[k]), "-")
StarLine(k) == StartsWith(Transform(markdown_content[k]), "*")
BlankLine(k) == IsBlank(Transform(markdown_content[k]))
HeadingOf(k) ==
    HeadingLevel(RemoveLine(Md5Line(ItalicLine(BoldLine(markdown_content[k])))))

\* maximal runs of consecutive `-` lines, as pairs <<first, last>>
DashRuns ==
    { r \in (1..NumLines) \X (1..NumLines) :
        /\ r[1] <= r[2]
        /\ \A k \in r[1]..r[2] : DashLine(k)
        /\ (r[1] = 1 \/ ~DashLine(r[1] - 1))
        /\ (r[2] = NumLines \/ ~DashLine(r[2] + 1)) }

(***************************************************************************)
(* C1: every maximal run of `-` lines is wrapped in exactly one <ul> ...   *)
(* </ul> pair: one <ul> before the first <li> of the run, one </ul> after  *)
(* the last <li>, none between the items, and as many pairs as runs.       *)
(***************************************************************************)
C1_RunWrappedOnce ==
    pc = "done" =>
        /\ CountIn(UL_OPEN, 1, Len(html_content)) = Cardinality(DashRuns)
        /\ CountIn(UL_CLOSE, 1, Len(html_content)) = Cardinality(DashRuns)
        /\ \A r \in DashRuns :
              LET first == GroupEnd(r[1])
                  last == GroupEnd(r[2])
                  after == IF r[2] < NumLines THEN GroupEnd(r[2] + 1)
                           ELSE Len(html_content)
              IN  /\ CountIn(UL_OPEN, GroupStart(r[1]), first - 1) = 1
                  /\ CountIn(UL_CLOSE, GroupStart(r[1]), first - 1) = 0
                  /\ CountIn(UL_OPEN, first, last) = 0
                  /\ CountIn(UL_CLOSE, first, last) = 0
                  /\ CountIn(UL_CLOSE, last + 1, after) = 1

(***************************************************************************)
(* C2: with no paragraph open, two consecutive non-blank lines that are    *)
(* neither headings (1..6 leading #) nor list lines produce <p>, line,     *)
(* <br/>, line; </p> is emitted only for a blank line or at end of input.  *)
(***************************************************************************)
TextLine(k) ==
    /\ ~BlankLine(k)
    /\ ~IsHeading(HeadingOf(k))
    /\ ~DashLine(k)
    /\ ~StarLine(k)

C2_ParagraphGrouping ==
    pc = "done" =>
        /\ \A k \in 1..(NumLines - 1) :
              (~hist[k].paragraph /\ TextLine(k) /\ TextLine(k + 1)) =>
                  Group(k) \o Group(k + 1) =
                      << P_OPEN, FinalLine(markdown_content[k]),
                         BR, FinalLine(markdown_content[k + 1]) >>
        /\ \A k \in 1..NumLines :
              CountIn(P_CLOSE, GroupStart(k), GroupEnd(k)) =
                  (IF BlankLine(k) /\ hist[k].paragraph THEN 1 ELSE 0)

(***************************************************************************)
(* C3: at the end of the conversion the closers of the blocks still open   *)
(* after the last line are appended in the order </ul>, </ol>, </p>, and   *)
(* every <ul>, <ol>, <p> of the output is followed by a matching closer.   *)
(***************************************************************************)
FollowedByCloser(open, close) ==
    \A i \in 1..Len(html_content) :
        html_content[i] = open =>
            CountIn(close, i + 1, Len(html_content))
                >= CountIn(open, i, Len(html_content))

C3_AllBlocksClosed ==
    pc = "done" =>
        LET last == hist[Len(hist)]
            wanted == << <<last.unordered, UL_CLOSE>>,
                         <<last.ordered, OL_CLOSE>>,
                         <<last.paragraph, P_CLOSE>> >>
            due == SelectSeq(wanted, LAMBDA w : w[1])
        IN  /\ FinalGroup = [j \in 1..Len(due) |-> due[j][2]]
            /\ FollowedByCloser(UL_OPEN, UL_CLOSE)
            /\ FollowedByCloser(OL_OPEN, OL_CLOSE)
            /\ FollowedByCloser(P_OPEN, P_CLOSE)

C3_Witness ==
    /\ pc = "done"
    /\ hist[Len(hist)].paragraph
    /\ FinalGroup = <<P_CLOSE>>
    /\ CountIn(UL_OPEN, 1, Len(html_content)) >= 1
    /\ CountIn(OL_OPEN, 1, Len(html_content)) >= 1
    /\ CountIn(P_CLOSE, 1, Len(html_content)) >= 2

(***************************************************************************)
(* C4: a line with N leading `#`, 1 <= N <= 6, is rewritten to             *)
(* <hN> inner </hN> newline, inner being the line without the `#` at both  *)
(* ends and then without surrounding whitespace; for N = 0 and N >= 7 the  *)
(* heading step leaves the line unchanged.                                 *)
(***************************************************************************)
LeadingHashes(l) ==
    CHOOSE n \in 0..Len(l) :
        /\ \A k \in 1..n : l[k] = "#"
        /\ (n < Len(l) => l[n + 1] # "#")

\* l without the longest prefix and the longest suffix made of cs
Trimmed(l, cs) ==
    LET keep == {k \in 1..Len(l) : l[k] \notin cs}
    IN  IF keep = {} THEN <<>>
        ELSE SubSeq(l, MinOf(keep), CHOOSE b \in keep : \A k \in keep : k <= b)

LevelDigit == <<"1", "2", "3", "4", "5", "6">>

C4_HeadingRewrite ==
    [][pc = "heading" =>
        LET n == LeadingHashes(line)
        IN  /\ heading_level' = n
            /\ IF n \in 1..6
               THEN line' = <<"<", "h", LevelDigit[n], ">">>
                            \o Trimmed(Trimmed(line, {"#"}), Whitespace)
                            \o <<"<", "/", "h", LevelDigit[n], ">", "\n">>
               ELSE line' = line]_vars

C4_Witness ==
    /\ pc = "unordered"
    /\ markdown_content[1] = <<"#", "#", "a", "#">>
    /\ heading_level = 2
    /\ line = <<"<", "h", "2", ">", "a", "<", "/", "h", "2", ">", "\n">>

(***************************************************************************)
(* C5: a non-blank line whose count of leading `#` is outside 1..6,        *)
(* processed while no list flag is open, gets paragraph handling: <p> and  *)
(* the paragraph flag set when no paragraph is open, <br/> otherwise.      *)
(***************************************************************************)
C5_NonHeadingGetsParagraph ==
    [][(/\ pc = "paragraph"
        /\ ~IsBlank(line)
        /\ heading_level \notin 1..6
        /\ ~unordered_start
        /\ ~ordered_start) =>
            /\ paragraph'
            /\ html_content' =
                   Append(html_content, IF paragraph THEN BR ELSE P_OPEN)]_vars

(***************************************************************************)
(* C6: a whitespace-only line is never appended as content; it appends     *)
(* exactly </p> and clears the paragraph flag when a paragraph is open,    *)
(* and appends nothing and changes no flag otherwise.                      *)
(***************************************************************************)
\* the block flags when line k has been processed
FlagsAfter(k) ==
    IF k < Len(hist)
    THEN <<hist[k + 1].unordered, hist[k + 1].ordered, hist[k + 1].paragraph>>
    ELSE <<unordered_start, ordered_start, paragraph>>

C6_BlankLine ==
    \A k \in 1..NumLines :
        (Processed(k) /\ BlankLine(k)) =>
            IF hist[k].paragraph
            THEN /\ Group(k) = <<P_CLOSE>>
                 /\ FlagsAfter(k) = <<hist[k].unordered, hist[k].ordered, FALSE>>
            ELSE /\ Group(k) = <<>>
                 /\ FlagsAfter(k) = <<hist[k].unordered, hist[k].ordered,
                                      hist[k].paragraph>>

C6_Witness ==
    /\ pc = "for"
    /\ idx = 3
    /\ markdown_content[2] = <<"(", "(", "c", ")", ")", "\n">>
    /\ hist[2].paragraph
    /\ ~paragraph
    /\ html_content = <<P_OPEN, <<"a", "\n">>, P_CLOSE>>

(***************************************************************************)
(* C7: input order is preserved: the fragments appended for line k are     *)
(* block tags followed, when the transformed line is not blank, by exactly *)
(* one content fragment, the line itself; the groups follow each other in  *)
(* input order and only block tags come after the last line.               *)
(***************************************************************************)
C7_OrderPreserved ==
    /\ \A k \in 1..NumLines :
          Processed(k) =>
              LET g == Group(k)
                  n == Len(g)
              IN  /\ GroupStart(k) <= GroupEnd(k) + 1
                  /\ (k = 1 => GroupStart(k) = 1)
                  /\ IF BlankLine(k)
                     THEN \A j \in 1..n : g[j] \in BlockTags
                     ELSE /\ n >= 1
                          /\ g[n] = FinalLine(markdown_content[k])
                          /\ g[n] \notin BlockTags
                          /\ \A j \in 1..(n - 1) : g[j] \in BlockTags
    /\ pc = "done" => \A j \in 1..Len(FinalGroup) : FinalGroup[j] \in BlockTags

C7_Witness ==
    /\ pc = "done"
    /\ markdown_content = << <<"a", "\n">>, <<"\n">>, <<"#", " ", "a", "\n">> >>
    /\ html_content = << P_OPEN, <<"a", "\n">>, P_CLOSE,
                         <<"<", "h", "1", ">", "a", "<", "/", "h", "1", ">", "\n">> >>

(***************************************************************************)
(* C8: of the occurrences of a delimiter (`**`, then `__`) only the first  *)
(* becomes the opening tag and only the next the closing tag; later ones   *)
(* stay literal, a single occurrence gets the opening tag alone, and a     *)
(* line without the delimiter is unchanged.                                *)
(***************************************************************************)
FirstPair(l, delim, open, close) ==
    LET occ == {p \in 1..(Len(l) - 1) : l[p] = delim[1] /\ l[p + 1] = delim[2]}
    IN  IF occ = {} THEN l
        ELSE LET p1 == MinOf(occ)
                 later == {p \in occ : p >= p1 + 2}
             IN  IF later = {}
                 THEN SubSeq(l, 1, p1 - 1) \o open \o SubSeq(l, p1 + 2, Len(l))
                 ELSE LET p2 == MinOf(later)
                      IN  SubSeq(l, 1, p1 - 1) \o open
                          \o SubSeq(l, p1 + 2, p2 - 1) \o close
                          \o SubSeq(l, p2 + 2, Len(l))

C8_FirstPairOnly ==
    [][/\ pc = "bold" => line' = FirstPair(line, BOLD, B_OPEN, B_CLOSE)
       /\ pc = "italic" => line' = FirstPair(line, ITALIC, EM_OPEN, EM_CLOSE)]_vars

C8_Witness ==
    /\ pc = "md5"
    /\ markdown_content[1] = <<"*", "*", "*", "*", "_", "_", "\n">>
    /\ line = B_OPEN \o B_CLOSE \o EM_OPEN \o <<"\n">>

(***************************************************************************)
(* C9: on a line whose `[[t]]` spans (leftmost, non-greedy) have bracket-  *)
(* free inner texts, every span is replaced by the digest of its own inner *)
(* text and the text outside the spans is unchanged.                       *)
(***************************************************************************)
\* left-to-right substitution of the spans open.+?close: by the digest of
\* the inner text (digest = TRUE) or by the inner text without C and c
RECURSIVE SubstituteSpans(_, _, _, _)
SubstituteSpans(l, open, close, digest) ==
    IF l = <<>> THEN <<>>
    ELSE LET q == MatchEnd(l, 1, open, close)
             t == SubSeq(l, 1 + Len(open), q - 1)
         IN  IF q # 0
             THEN (IF digest THEN hexdigest(t) ELSE WithoutC(t))
                  \o SubstituteSpans(SubSeq(l, q + Len(close), Len(l)),
                                     open, close, digest)
             ELSE <<Head(l)>> \o SubstituteSpans(Tail(l), open, close, digest)

BracketFreeSpans(l) ==
    LET inner == FindAll(l, LBR, RBR, TRUE)
    IN  \A j \in 1..Len(inner) : \A k \in 1..Len(inner[j]) :
            inner[j][k] \notin {"[", "]"}

C9_HashSpans ==
    [][(pc = "md5" /\ BracketFreeSpans(line)) =>
           line' = SubstituteSpans(line, LBR, RBR, TRUE)]_vars

C9_Witness ==
    /\ pc = "remove"
    /\ markdown_content[1] = LBR \o <<"a">> \o RBR \o <<"a">>
                             \o LBR \o <<"b", "a">> \o RBR \o <<"\n">>
    /\ line = hexdigest(<<"a">>) \o <<"a">> \o hexdigest(<<"b", "a">>) \o <<"\n">>
    /\ hexdigest(<<"a">>) # hexdigest(<<"b", "a">>)

(***************************************************************************)
(* C10: every `((t))` span (leftmost, non-greedy) is replaced by t without *)
(* its `C` and `c`; all spans of a line are converted and the text outside *)
(* the spans is unchanged.                                                 *)
(***************************************************************************)
C10_RemovalSpans ==
    [][pc = "remove" =>
           line' = SubstituteSpans(line, LPAR, RPAR, FALSE)]_vars

(***************************************************************************)
(* C11: the transformed text and the heading level of a line depend only   *)
(* on the text of that line: two occurrences of the same line, whatever    *)
(* precedes them and whatever the block flags are, get the same text and   *)
(* level; the transformer steps change no block flag and append nothing.   *)
(***************************************************************************)
\* line k has gone through the heading step
Transformed(k) ==
    /\ k \in 1..NumLines
    /\ k <= Len(hist)
    /\ (k < idx \/ pc \in {"unordered", "ordered", "paragraph", "emit"})

C11_TransformerPure ==
    /\ \A k \in 1..NumLines : \A j \in 1..NumLines :
          (Transformed(k) /\ Transformed(j)
              /\ markdown_content[k] = markdown_content[j]) =>
                  /\ hist[k].text = hist[j].text
                  /\ hist[k].level = hist[j].level
    /\ pc \in {"bold", "italic", "md5", "remove", "heading", "unordered"} =>
          /\ Len(html_content) = hist[idx].len
          /\ unordered_start = hist[idx].unordered
          /\ ordered_start = hist[idx].ordered
          /\ paragraph = hist[idx].paragraph

C11_Witness ==
    /\ pc = "unordered"
    /\ idx = 3
    /\ markdown_content = << <<"#", " ", "a", "\n">>, <<"a", "\n">>,
                             <<"#", " ", "a", "\n">> >>
    /\ ~hist[1].paragraph
    /\ hist[3].paragraph
    /\ paragraph
    /\ hist[1].text = <<"<", "h", "1", ">", "a", "<", "/", "h", "1", ">", "\n">>
    /\ hist[3].text = hist[1].text
    /\ hist[3].level = 1

(***************************************************************************)
(* C12: when the argument count is wrong (len(sys.argv) # 3) or the input  *)
(* path is not an existing file, main terminates with a non-zero status    *)
(* without reading the input, without calling the conversion and without   *)
(* touching the output file; the argument count is checked before the      *)
(* existence of the file.                                                  *)
(***************************************************************************)
Happened(e) == \E k \in 1..Len(events) : events[k] = e

C12_EarlyChecks ==
    /\ (argv_len # 3 \/ ~input_isfile) =>
          /\ ~Happened("read")
          /\ ~Happened("convert")
          /\ ~Happened("write")
          /\ pc = "idle"
          /\ html_content = <<>>
          /\ output_file.state = "untouched"
          /\ exit_status # 0
          /\ mpc \notin {"read", "convert", "write"}
          /\ (mpc = "exit" => exit_status = 1)
    /\ argv_len # 3 =>
          /\ ~Happened("isfile")
          /\ mpc \in {"args", "exit"}
          /\ (mpc = "exit" => stderr = "usage")
    /\ (argv_len = 3 /\ ~input_isfile /\ mpc = "exit") =>
          /\ stderr = "missing"
          /\ events = <<"isfile">>

C12_Witness ==
    /\ mpc = "exit"
    /\ argv_len = 4
    /\ input_isfile
    /\ input_lines # <<>>
    /\ stderr = "usage"
    /\ exit_status = 1
    /\ events = <<>>

(***************************************************************************)
(* C13: a failure of the read, of the conversion or of the write is        *)
(* reported and ends main with a non-zero status, nothing is retried; main *)
(* ends with status zero only after the read, the conversion and the one   *)
(* write of the whole output completed in that order.                      *)
(***************************************************************************)
C13_FailuresAreTerminal ==
    /\ [](/\ exit_status = 0 =>
                /\ mpc = "exit"
                /\ events = <<"isfile", "read", "convert", "write">>
                /\ pc = "done"
                /\ output_file = [state |-> "written", text |-> result]
                /\ stderr = ""
          /\ stderr = "error" =>
                /\ mpc = "exit"
                /\ exit_status # 0
                /\ exit_status # -1
                /\ ~Happened("write")
          /\ \A j \in 1..Len(events) : \A k \in 1..Len(events) :
                events[j] = events[k] => j = k)
    /\ [][mpc # "exit"]_vars

C13_Witness ==
    /\ mpc = "exit"
    /\ stderr = "error"
    /\ exit_status = 1
    /\ pc = "raised"
    /\ events = <<"isfile", "read">>
    /\ output_file.state = "untouched"

(***************************************************************************)
(* C14: the line transformations run in the order bold, italic, hash,      *)
(* removal, heading, each on the output of the previous one, and the list  *)
(* and paragraph steps start from the final result: a digest produced      *)
(* inside a `((..))` span loses its `c`, a `((..))` span inside a          *)
(* `[[..]]` span is hashed literally, and the heading level is counted on  *)
(* the text left after the removal.                                        *)
(***************************************************************************)
Raw == markdown_content[idx]

C14_FixedOrder ==
    /\ pc = "italic" => line = BoldLine(Raw)
    /\ pc = "md5" => line = ItalicLine(BoldLine(Raw))
    /\ pc = "remove" => line = Md5Line(ItalicLine(BoldLine(Raw)))
    /\ pc = "heading" => line = RemoveLine(Md5Line(ItalicLine(BoldLine(Raw))))
    /\ pc = "unordered" =>
          /\ heading_level =
                 HeadingLevel(RemoveLine(Md5Line(ItalicLine(BoldLine(Raw)))))
          /\ line = HeadingLine(RemoveLine(Md5Line(ItalicLine(BoldLine(Raw)))))
          /\ Raw = LPAR \o LBR \o <<"c">> \o RBR \o RPAR \o <<"\n">> =>
                 line = WithoutC(hexdigest(<<"c">>)) \o <<"\n">>
          /\ Raw = LBR \o LPAR \o <<"c">> \o RPAR \o RBR \o <<"\n">> =>
                 line = hexdigest(LPAR \o <<"c">> \o RPAR) \o <<"\n">>
          /\ Raw = LPAR \o <<"c">> \o RPAR \o <<"#", " ", "t", "\n">> =>
                 /\ heading_level = 1
                 /\ line = <<"<", "h", "1", ">", "t", "<", "/", "h", "1", ">", "\n">>
          /\ Raw = <<"_", "_", "#", "\n">> =>
                 /\ heading_level = 0
                 /\ line = EM_OPEN \o <<"#", "\n">>

C14_Witness ==
    /\ pc = "unordered"
    /\ Raw = LPAR \o LBR \o <<"c">> \o RBR \o RPAR \o <<"\n">>
    /\ line = WithoutC(hexdigest(<<"c">>)) \o <<"\n">>
    /\ Len(line) < DigestLen + 1

(***************************************************************************)
(* C15: no line is classified into both list kinds: processing a line      *)
(* never emits both <ul> and <ol> and never applies the <li> rewrite       *)
(* twice; the marker is the first character of the transformed line, so a  *)
(* line whose leading `**` became <b> is not an ordered-list item.         *)
(***************************************************************************)
LI_OPEN == <<"<", "l", "i", ">">>

InGroup(f, k) == CountIn(f, GroupStart(k), GroupEnd(k))

C15_OneListKind ==
    \A k \in 1..NumLines :
        Processed(k) =>
            LET g == Group(k)
                t == hist[k].text
            IN  /\ InGroup(UL_OPEN, k) + InGroup(OL_OPEN, k) <= 1
                /\ InGroup(UL_OPEN, k) = (IF StartsWith(t, "-") THEN 1 ELSE 0)
                /\ InGroup(OL_OPEN, k) = (IF StartsWith(t, "*") THEN 1 ELSE 0)
                /\ \A j \in 1..Len(g) : ~OccursAt(g[j], LI_OPEN \o LI_OPEN, 1)
                /\ (~IsBlank(t) /\ ~StartsWith(t, "-") /\ ~StartsWith(t, "*")) =>
                       g[Len(g)] = t
                /\ OccursAt(t, B_OPEN, 1) =>
                       /\ InGroup(OL_OPEN, k) = 0
                       /\ g[Len(g)] = t

C15_Witness ==
    /\ pc = "done"
    /\ markdown_content = << <<"*", "*", "a", "*", "*", "\n">> >>
    /\ hist[1].text = B_OPEN \o <<"a">> \o B_CLOSE \o <<"\n">>
    /\ html_content = <<P_OPEN, hist[1].text, P_CLOSE>>

(***************************************************************************)
(* C16: the closing check of a list step sees the line already rewritten   *)
(* to <li>...</li>, so both list flags are false after the list steps of   *)
(* every line: they are never true together, never true at the paragraph   *)
(* step, at the next line or at the end; every <ul> is immediately         *)
(* followed by </ul>, every <ol> by </ol>, and the end-of-input closers    *)
(* of the lists never fire.                                                *)
(***************************************************************************)
ImmediatelyClosed(open, close) ==
    \A i \in 1..Len(html_content) :
        html_content[i] = open =>
            i < Len(html_content) /\ html_content[i + 1] = close

C16_ListFlagsNeverStay ==
    /\ ~unordered_start
    /\ ~ordered_start
    /\ \A k \in 1..Len(hist) : ~hist[k].unordered /\ ~hist[k].ordered
    /\ ImmediatelyClosed(UL_OPEN, UL_CLOSE)
    /\ ImmediatelyClosed(OL_OPEN, OL_CLOSE)
    /\ pc = "done" =>
          \A j \in 1..Len(FinalGroup) : FinalGroup[j] \notin {UL_CLOSE, OL_CLOSE}

C16_Witness ==
    /\ pc = "done"
    /\ markdown_content = << <<"*", "a", "\n">>, <<"-", " ", "a", "\n">> >>
    /\ html_content =
           << OL_OPEN, OL_CLOSE, P_OPEN, ListItem(<<"a">>, "*"),
              UL_OPEN, UL_CLOSE, BR, ListItem(<<"a">>, "-"), P_CLOSE >>

(***************************************************************************)
(* C17: paragraph tags are balanced and never nested at every prefix of    *)
(* the output.                                                             *)
(***************************************************************************)
\* number of <p> minus number of </p> among the first n fragments
ParagraphDepth(n) == CountIn(P_OPEN, 1, n) - CountIn(P_CLOSE, 1, n)

FlagDepth(flag) == IF flag THEN 1 ELSE 0

\* </p> and <br/> are emitted only while a paragraph is open, <p> only
\* while none is
WellPlaced ==
    \A i \in 1..Len(html_content) :
        /\ html_content[i] = P_CLOSE => ParagraphDepth(i - 1) = 1
        /\ html_content[i] = BR => ParagraphDepth(i - 1) = 1
        /\ html_content[i] = P_OPEN => ParagraphDepth(i - 1) = 0

\* the depth followed the flag at the start of every line and at the end
\* of the loop
DepthFollowedFlag ==
    \A k \in 1..Len(hist) :
        ParagraphDepth(hist[k].len) = FlagDepth(hist[k].paragraph)

\* C17 as stated: at every prefix of the output, the end of the output
\* included, the depth is 1 exactly when the paragraph flag is true and 0
\* otherwise, and the three tags are well placed.
C17_DepthIsFlag ==
    /\ WellPlaced
    /\ DepthFollowedFlag
    /\ ParagraphDepth(Len(html_content)) = FlagDepth(paragraph)

\* C17 amended: the depth is 1 exactly when the flag is true and 0
\* otherwise at every prefix emitted by the loop; the </p> of lines 93-94
\* brings the depth to 0 and leaves the flag as it was, so the finished
\* output is balanced whatever the flag; the three tags are well placed.
C17_DepthIsFlagInLoop ==
    /\ WellPlaced
    /\ DepthFollowedFlag
    /\ pc # "done" => ParagraphDepth(Len(html_content)) = FlagDepth(paragraph)
    /\ pc = "done" => ParagraphDepth(Len(html_content)) = 0

C17_Witness ==
    /\ pc = "done"
    /\ paragraph
    /\ FinalGroup = <<P_CLOSE>>
    /\ CountIn(P_CLOSE, 1, Len(html_content)) = 2
    /\ CountIn(BR, 1, Len(html_content)) = 0

(***************************************************************************)
(* C18: a line that reaches the heading step with 1 to 6 leading `#`       *)
(* leaves the three block flags as they were at its start and appends      *)
(* exactly one fragment, its <hN>...</hN> line: no <p>, <br/> or </p>; a   *)
(* paragraph open before the heading is still open after it.               *)
(***************************************************************************)
BeforeHeading(k) == RemoveLine(Md5Line(ItalicLine(BoldLine(markdown_content[k]))))

C18_HeadingFrame ==
    \A k \in 1..NumLines :
        LET l == BeforeHeading(k)
            n == LeadingHashes(l)
        IN  (Processed(k) /\ n \in 1..6) =>
                /\ FlagsAfter(k) =
                       <<hist[k].unordered, hist[k].ordered, hist[k].paragraph>>
                /\ Group(k) =
                       << <<"<", "h", LevelDigit[n], ">">>
                          \o Trimmed(Trimmed(l, {"#"}), Whitespace)
                          \o <<"<", "/", "h", LevelDigit[n], ">", "\n">> >>

C18_Witness ==
    /\ pc = "done"
    /\ markdown_content = << <<"a", "\n">>, <<"#", " ", "a", "\n">>, <<"a", "\n">> >>
    /\ hist[2].paragraph
    /\ hist[3].paragraph
    /\ html_content =
           << P_OPEN, <<"a", "\n">>,
              <<"<", "h", "1", ">", "a", "<", "/", "h", "1", ">", "\n">>,
              BR, <<"a", "\n">>, P_CLOSE >>

(***************************************************************************)
(* C19: list items take part in paragraph handling.  For every line whose  *)
(* text starts with `-` or `*` when it reaches the list steps, the         *)
(* fragments appended are the list's opening tag, its closing tag, then    *)
(* <p> when no paragraph was open at the start of the line and <br/> when  *)
(* one was, then the <li>...</li> fragment; the paragraph flag is true     *)
(* after the line.                                                         *)
(***************************************************************************)
ItemGroup(t, marker, open, close, wasOpen) ==
    << open, close, IF wasOpen THEN BR ELSE P_OPEN, ListItem(t, marker) >>

C19_ItemsInParagraph ==
    \A k \in 1..NumLines :
        LET t == hist[k].text
            g == Group(k)
        IN  (Processed(k) /\ (StartsWith(t, "-") \/ StartsWith(t, "*"))) =>
                /\ g = IF StartsWith(t, "-")
                       THEN ItemGroup(t, "-", UL_OPEN, UL_CLOSE, hist[k].paragraph)
                       ELSE ItemGroup(t, "*", OL_OPEN, OL_CLOSE, hist[k].paragraph)
                /\ OccursAt(g[4], LI_OPEN, 1)
                /\ FlagsAfter(k)[3]

C19_Witness ==
    /\ pc = "done"
    /\ markdown_content = << <<"a", "\n">>, <<"*", "a", "\n">> >>
    /\ hist[2].paragraph
    /\ html_content =
           << P_OPEN, <<"a", "\n">>, OL_OPEN, OL_CLOSE, BR,
              <<"<", "l", "i", ">", "a", "<", "/", "l", "i", ">", "\n">>,
              P_CLOSE >>

====
